---- MODULE Spec2Model ----
(***************************************************************************)
(* A model of go-backup's archive lifecycle: the per-job configuration     *)
(* (internal/service/config), the rotation engine                          *)
(* (internal/service/backup), the run command (app/cmd/run.go), the       *)
(* global registry, the run-all command over the registry, and the        *)
(* exclusion patterns of the archive and of the size analysis             *)
(* (internal/service/compress).                                            *)
(*                                                                         *)
(* File names are sequences of tokens over a small alphabet, so that       *)
(* strings.HasPrefix / HasSuffix / TrimSuffix and concatenation are the    *)
(* sequence operations they are on Go strings.                             *)
(***************************************************************************)
EXTENDS Integers, Sequences, FiniteSets, TLC

VARIABLES
    config,       \* SpecConfig: the BackupConfig value the operations mutate
    initConfig,   \* SpecConfig: the BackupConfig at construction (history)
    appended,     \* SpecConfig: per target index, number of records appended to it
    lastRecord,   \* SpecConfig: per target index, the record of the latest append
    inOrder,      \* SpecConfig: per target index, appends arrived in createdAt order
    dir,          \* SpecRotate: the backup directory, name -> [mtime, isDir]
    readable,     \* SpecRotate: whether os.ReadDir succeeds, in the latest call
    undeletable,  \* SpecRotate: names on which os.Remove fails, in the latest
                  \* call; SpecRun: in the rotations of the runs
    lastCall,     \* SpecRotate: the latest operation on dir and what it did
    saved,        \* SpecRun: the configuration file .backup.yaml
    disk,         \* SpecRun: destination directory path -> directory content
    tmp,          \* SpecRun: the names in os.TempDir()
    clock,        \* SpecRun: time.Now(), in seconds
    flags,        \* SpecRun: the command-line flags of the runs
    pc,           \* SpecRun: where the run command is
    run,          \* SpecRun: the local variables of the current run
    lastOp,       \* SpecConfig, SpecEdit, SpecRegistry: the latest call and
                  \* what it was given
    registry,     \* SpecRegistry: the global registry file ~/.backup.yaml
    tree,         \* SpecExclude: the source tree, relative path -> [isDir, size]
    excludes,     \* SpecExclude: the exclusion patterns
    archive,      \* SpecExclude: the source directory and the header names
                  \* CreateTarGzArchive wrote
    analysis,     \* SpecExclude: what CheckFileSizes and ListLargeFiles report
    runAll        \* SpecRunAll: the run-all command, its flag and its counters

varsConfig == <<config, initConfig, appended, lastRecord, inOrder>>
varsRotate == <<dir, readable, undeletable, lastCall>>
varsRun == <<saved, disk, tmp, clock, flags, pc, run>>
varsEdit == <<lastOp, registry>>
varsExclude == <<tree, excludes, archive, analysis>>
vars == <<config, initConfig, appended, lastRecord, inOrder,
          dir, readable, undeletable, lastCall,
          saved, disk, tmp, clock, flags, pc, run, lastOp, registry,
          tree, excludes, archive, analysis, runAll>>

-----------------------------------------------------------------------------
(* Bounds of the model *)

\* modification times and createdAt values range over 1..MaxMTime
MaxMTime == 2
\* rotate is called with maxBackups in 0..MaxKeep
MaxKeep == 2
\* AddBackupRecord is called at most MaxAppends times
MaxAppends == 3
\* the clock of the runs goes from 1 to MaxClock
MaxClock == 2
\* at most MaxRuns runs are started
MaxRuns == 2

-----------------------------------------------------------------------------
(* Strings *)

Min(a, b) == IF a < b THEN a ELSE b

HasPrefix(s, p) == Len(p) <= Len(s) /\ SubSeq(s, 1, Len(p)) = p

HasSuffix(s, x) == Len(x) <= Len(s) /\ SubSeq(s, Len(s) - Len(x) + 1, Len(s)) = x

TrimSuffix(s, x) == IF HasSuffix(s, x) THEN SubSeq(s, 1, Len(s) - Len(x)) ELSE s

TarGz == <<".tar", ".gz">>
TarGzGpg == <<".tar", ".gz", ".gpg">>
BackupYaml == <<".backup", ".yaml">>

\* byte order of the tokens, as os.ReadDir sorts names: "-" and "." come
\* before the digits, the digits before the letters
TokenRank(t) ==
    CASE t = "-" -> 1
      [] t = ".backup" -> 2
      [] t = ".gpg" -> 3
      [] t = ".gz" -> 4
      [] t = ".tar" -> 5
      [] t = ".yaml" -> 6
      [] t = "0" -> 7
      [] t = "1" -> 8
      [] t = "2" -> 9
      [] t = "3" -> 10
      [] t = "4" -> 11
      [] t = "5" -> 12
      [] t = "6" -> 13
      [] t = "d1" -> 14
      [] t = "d2" -> 15
      [] t = "d3" -> 16
      [] t = "f1" -> 17
      [] t = "job" -> 18
      [] t = "oth" -> 19

RECURSIVE NameLess(_, _)
NameLess(a, b) ==
    IF a = <<>> THEN b # <<>>
    ELSE IF b = <<>> THEN FALSE
    ELSE IF Head(a) = Head(b) THEN NameLess(Tail(a), Tail(b))
    ELSE TokenRank(Head(a)) < TokenRank(Head(b))

-----------------------------------------------------------------------------
(* The backup directory *)

\* os.ReadDir: the names of the directory, sorted by filename
RECURSIVE ReadDir(_)
ReadDir(names) ==
    IF names = {} THEN <<>>
    ELSE LET first == CHOOSE n \in names : \A m \in names \ {n} : NameLess(n, m)
         IN <<first>> \o ReadDir(names \ {first})

\* the filter of rotation.go: a non-directory whose name has the prefix and
\* ends in .tar.gz or .tar.gz.gpg
IsBackupFile_AnyPrefix(d, fileName, prefix) ==
    /\ ~d[fileName].isDir
    /\ (HasSuffix(fileName, TarGz) \/ HasSuffix(fileName, TarGzGpg))

IsBackupFile(d, fileName, prefix) ==
    /\ ~d[fileName].isDir
    /\ HasPrefix(fileName, prefix)
    /\ (HasSuffix(fileName, TarGz) \/ HasSuffix(fileName, TarGzGpg))

BackupFiles(d, prefix) ==
    LET Keep(n) == IsBackupFile(d, n, prefix)
    IN SelectSeq(ReadDir(DOMAIN d), Keep)

\* one insertion step of sort.Slice with less = ModTime().Before: the entry
\* moves left past every entry that is strictly newer
RECURSIVE InsertByModTime(_, _, _)
InsertByModTime(d, sorted, n) ==
    IF sorted = <<>> THEN <<n>>
    ELSE LET last == sorted[Len(sorted)]
         IN IF d[n].mtime < d[last].mtime
            THEN InsertByModTime(d, SubSeq(sorted, 1, Len(sorted) - 1), n) \o <<last>>
            ELSE sorted \o <<n>>

RECURSIVE SortByModTime(_, _)
SortByModTime(d, names) ==
    IF names = <<>> THEN <<>>
    ELSE InsertByModTime(d, SortByModTime(d, SubSeq(names, 1, Len(names) - 1)),
                         names[Len(names)])

\* backupFiles[:len(backupFiles)-maxBackups]
FilesToDelete_Newest(sorted, maxBackups) ==
    SubSeq(sorted, maxBackups + 1, Len(sorted))

FilesToDelete(sorted, maxBackups) == SubSeq(sorted, 1, Len(sorted) - maxBackups)

\* the base name the sidecar names are built from
ConfigBaseName(fileName) ==
    IF HasSuffix(fileName, TarGzGpg) THEN TrimSuffix(fileName, TarGzGpg)
    ELSE IF HasSuffix(fileName, TarGz) THEN TrimSuffix(fileName, TarGz)
    ELSE LET a == IF HasSuffix(fileName, <<".gpg">>)
                  THEN TrimSuffix(fileName, <<".gpg">>) ELSE fileName
             b == IF HasSuffix(a, <<".gz">>) THEN TrimSuffix(a, <<".gz">>) ELSE a
         IN IF HasSuffix(b, <<".tar">>) THEN TrimSuffix(b, <<".tar">>) ELSE b

\* the sidecar names rotation removes with an archive, in the order tried
ConfigFileNames(fileName) ==
    LET base == ConfigBaseName(fileName)
    IN << base \o BackupYaml,
          base \o TarGz \o BackupYaml,
          base \o <<".gpg">> \o BackupYaml >>

\* the state of the deletion loop: the directory, and the names os.Remove
\* was called on, split by outcome
RemoveResult(st, name, undel) ==
    IF name \in DOMAIN st.dir /\ name \notin undel
    THEN [st EXCEPT !.dir = [n \in DOMAIN st.dir \ {name} |-> st.dir[n]],
                    !.removed = st.removed \union {name}]
    ELSE [st EXCEPT !.failed = st.failed \union {name}]

\* os.Remove of the archive; the warning is printed and the loop goes on
RemoveBackup_Abort(st, name, undel) ==
    IF st.failed # {} THEN st ELSE RemoveResult(st, name, undel)

RemoveBackup(st, name, undel) == RemoveResult(st, name, undel)

\* os.Stat, then os.Remove, of one sidecar name
RemoveConfigFile(st, name, undel) ==
    IF name \in DOMAIN st.dir THEN RemoveResult(st, name, undel) ELSE st

\* the body of the loop over filesToDelete for one archive
DeleteOne(st, fileName, undel) ==
    LET cfgs == ConfigFileNames(fileName)
        s1 == RemoveBackup(st, fileName, undel)
        s2 == RemoveConfigFile(s1, cfgs[1], undel)
        s3 == RemoveConfigFile(s2, cfgs[2], undel)
    IN RemoveConfigFile(s3, cfgs[3], undel)

\* the loop over filesToDelete
DeleteAll_FirstOnly(st, files, undel) ==
    IF files = <<>> THEN st ELSE DeleteOne(st, Head(files), undel)

RECURSIVE DeleteAll(_, _, _)
DeleteAll(st, files, undel) ==
    IF files = <<>> THEN st
    ELSE DeleteAll(DeleteOne(st, Head(files), undel), Tail(files), undel)

\* CleanupOldBackups(backupDir, prefix, maxBackups); readOk is whether
\* os.ReadDir succeeds. The result holds the directory afterwards, the
\* archives selected, the names removed and those whose removal failed, and
\* the error returned ("nil" or "read").
CleanupOldBackups(d, prefix, maxBackups, undel, readOk) ==
    LET start == [dir |-> d, removed |-> {}, failed |-> {}]
        backupFiles == BackupFiles(d, prefix)
        sorted == SortByModTime(d, backupFiles)
        filesToDelete == FilesToDelete(sorted, maxBackups)
    IN IF ~readOk
       THEN [dir |-> d, selected |-> <<>>, removed |-> {}, failed |-> {}, err |-> "read"]
       ELSE IF Len(backupFiles) <= maxBackups
       THEN [dir |-> d, selected |-> <<>>, removed |-> {}, failed |-> {}, err |-> "nil"]
       ELSE LET end == DeleteAll(start, filesToDelete, undel)
            IN [dir |-> end.dir, selected |-> filesToDelete,
                removed |-> end.removed, failed |-> end.failed, err |-> "nil"]

-----------------------------------------------------------------------------
(* The configuration: internal/service/config *)

DefaultMaxBackups == 7

IsFileTarget(t) == t.File # ""

GetDestination(t) == IF IsFileTarget(t) THEN t.File ELSE t.Path

\* the index of the first target whose destination is targetPath, 0 if none
\* (the code's targetIndex, counted from 1)
RECURSIVE FindTargetFrom(_, _, _)
FindTargetFrom(targets, targetPath, i) ==
    IF i > Len(targets) THEN 0
    ELSE IF GetDestination(targets[i]) = targetPath THEN i
    ELSE FindTargetFrom(targets, targetPath, i + 1)

\* the loop without its break: the last target with that destination
FindTarget_Last(cfg, targetPath) ==
    LET matching == {i \in 1..Len(cfg.Targets) :
                        GetDestination(cfg.Targets[i]) = targetPath}
    IN IF matching = {} THEN 0
       ELSE CHOOSE i \in matching : \A j \in matching : j <= i

FindTarget(cfg, targetPath) == FindTargetFrom(cfg.Targets, targetPath, 1)

\* append([]BackupRecord{record}, Backups...)
PrependRecord_AtEnd(record, backups) == backups \o <<record>>

PrependRecord(record, backups) == <<record>> \o backups

\* no default: the value of the target as it is
EffectiveMaxBackups_AsGiven(maxBackups) == maxBackups

EffectiveMaxBackups(maxBackups) ==
    IF maxBackups <= 0 THEN DefaultMaxBackups ELSE maxBackups

\* Backups[:maxBackups] when the list is longer
TrimBackups_NoTrim(backups, maxBackups) == backups

TrimBackups(backups, maxBackups) ==
    IF Len(backups) > maxBackups THEN SubSeq(backups, 1, maxBackups) ELSE backups

\* the file-target branch: the history becomes the one new record
FileTargetBackups_Prepend(record, backups) == <<record>> \o backups

FileTargetBackups(record, backups) == <<record>>

AddToTarget(t, record) ==
    IF IsFileTarget(t)
    THEN [t EXCEPT !.Backups = FileTargetBackups(record, t.Backups)]
    ELSE LET maxBackups == EffectiveMaxBackups(t.MaxBackups)
         IN [t EXCEPT !.MaxBackups = maxBackups,
                      !.Backups = TrimBackups(PrependRecord(record, t.Backups),
                                              maxBackups)]

AddBackupRecord(cfg, targetPath, record) ==
    LET targetIndex == FindTarget(cfg, targetPath)
    IN IF targetIndex >= 1
       THEN [cfg EXCEPT !.Targets[targetIndex] = AddToTarget(@, record)]
       ELSE cfg

\* UpdateTargetStatus: LastRun of the first target with that destination.
\* No command calls it.
UpdateTargetStatus(cfg, targetPath, status, message, now) ==
    LET i == FindTarget(cfg, targetPath)
    IN IF i >= 1
       THEN [cfg EXCEPT !.Targets[i].LastRun =
                <<[Timestamp |-> now, Status |-> status, Message |-> message]>>]
       ELSE cfg

-----------------------------------------------------------------------------
(* SpecConfig: AddBackupRecord called on a configuration *)

ArchiveName(prefixName, t) == <<prefixName, "-", ToString(t)>> \o TarGz

BackupRecordAt(t) ==
    [Filename |-> ArchiveName("job", t), Source |-> "/src", CreatedAt |-> t,
     Size |-> 1024]

Records == {BackupRecordAt(t) : t \in 1..MaxMTime}

\* a history as the tests build it: the older record first
PriorHistory == <<BackupRecordAt(1), BackupRecordAt(2)>>

\* a history of as many records as the default limit keeps
LongHistory ==
    [i \in 1..DefaultMaxBackups |-> BackupRecordAt(IF i = 1 THEN MaxMTime ELSE 1)]

DirTargets ==
    {[Path |-> "/d1", File |-> "", MaxBackups |-> m, Backups |-> b] :
        m \in -1..MaxKeep, b \in {<<>>, PriorHistory, LongHistory}}

FileTargets ==
    {[Path |-> "", File |-> f, MaxBackups |-> 0, Backups |-> b] :
        f \in {"/f1", "/d1"}, b \in {<<>>, PriorHistory}}

TargetChoices == DirTargets \union FileTargets

Destinations == {"/d1", "/f1", "/nonexistent"}

NoRecord == [Filename |-> <<>>, Source |-> "", CreatedAt |-> 0, Size |-> 0]

\* newest first: no record is earlier than the one that follows it
NewestFirst(backups) ==
    \A i \in 1..(Len(backups) - 1) : backups[i].CreatedAt >= backups[i + 1].CreatedAt

NoConfig == [Excludes |-> <<>>, Targets |-> <<>>, Encryption |-> <<>>]

NoOp == [op |-> "none", err |-> "nil", dupFree |-> TRUE, changed |-> FALSE]

NoRegistry == [state |-> "missing", doc |-> <<>>]

ParkedEdit ==
    /\ lastOp = NoOp
    /\ registry = NoRegistry

NoArchive == [done |-> FALSE, names |-> {}, sourceDir |-> <<>>]

NoAnalysis ==
    [done |-> FALSE, counted |-> {}, over |-> {}, large |-> {},
     maxSizeGB |-> 0, thresholdMB |-> 0]

ParkedExclude ==
    /\ tree = <<>>
    /\ excludes = <<>>
    /\ archive = NoArchive
    /\ analysis = NoAnalysis

NoRunAll ==
    [pc |-> "parked", continueOnError |-> FALSE, found |-> <<>>, backups |-> <<>>,
     next |-> 1, successCount |-> 0, errorCount |-> 0, missingCount |-> 0,
     processed |-> <<>>, exit |-> -1]

ParkedRunAll == runAll = NoRunAll

ParkedConfig ==
    /\ config = NoConfig
    /\ initConfig = NoConfig
    /\ appended = <<>>
    /\ lastRecord = <<>>
    /\ inOrder = <<>>

InitConfig ==
    /\ \E t1 \in TargetChoices, t2 \in TargetChoices :
          config = [Excludes |-> <<".git">>, Targets |-> <<t1, t2>>,
                    Encryption |-> <<>>]
    /\ initConfig = config
    /\ appended = [i \in 1..Len(config.Targets) |-> 0]
    /\ lastRecord = [i \in 1..Len(config.Targets) |-> NoRecord]
    /\ inOrder = [i \in 1..Len(config.Targets) |-> NewestFirst(config.Targets[i].Backups)]

TotalAppended == appended[1] + appended[2]

AddRecord(targetPath, record) ==
    /\ TotalAppended < MaxAppends
    /\ config' = AddBackupRecord(config, targetPath, record)
    /\ LET i == FindTarget(config, targetPath)
       IN IF i = 0
          THEN UNCHANGED <<appended, lastRecord, inOrder>>
          ELSE /\ appended' = [appended EXCEPT ![i] = @ + 1]
               /\ lastRecord' = [lastRecord EXCEPT ![i] = record]
               /\ inOrder' = [inOrder EXCEPT ![i] =
                      /\ @
                      /\ \/ config.Targets[i].Backups = <<>>
                         \/ record.CreatedAt >= config.Targets[i].Backups[1].CreatedAt]
    /\ lastOp' = [op |-> "AddBackupRecord", err |-> "nil", dupFree |-> TRUE,
                  changed |-> TRUE,
                  targetPath |-> targetPath, record |-> record,
                  before |-> config]
    /\ UNCHANGED initConfig

NextConfig ==
    /\ \E targetPath \in Destinations, record \in Records :
          AddRecord(targetPath, record)
    /\ UNCHANGED <<varsRotate, varsRun, registry, varsExclude, runAll>>

-----------------------------------------------------------------------------
(* SpecRotate: CleanupOldBackups called on a directory *)

JobPrefix == <<"job", "-">>
OthPrefix == <<"oth", "-">>

A1 == <<"job", "-", "1", ".tar", ".gz">>
A2 == <<"job", "-", "2", ".tar", ".gz">>
G1 == <<"job", "-", "1", ".tar", ".gz", ".gpg">>
O1 == <<"oth", "-", "1", ".tar", ".gz">>
S1 == <<"job", "-", "1", ".backup", ".yaml">>
S2 == <<"job", "-", "2", ".backup", ".yaml">>
T1 == <<"job", "-", "1", ".tar", ".gz", ".backup", ".yaml">>
P1 == <<"job", "-", "1", ".gpg", ".backup", ".yaml">>
D1 == <<"job", "-", "3", ".tar", ".gz">>

JobArchives == {A1, A2, G1}
SubdirNames == {D1}
\* what else the directory may hold: each sidecar of the standard format,
\* the two sidecars of the older formats, and the files rotation of "job-"
\* must not look at (another job's archive, a subdirectory)
OtherGroups == {{S1}, {S2}, {T1, P1}, {O1, D1}}

\* the faults of one call: the directory cannot be read, or os.Remove
\* fails on one name
FaultChoices ==
    {[readable |-> TRUE, undeletable |-> {}],
     [readable |-> FALSE, undeletable |-> {}],
     [readable |-> TRUE, undeletable |-> {A1}],
     [readable |-> TRUE, undeletable |-> {S1}]}

NoCall ==
    [op |-> "none", prefix |-> <<>>, maxBackups |-> 0, before |-> <<>>,
     selected |-> <<>>, removed |-> {}, failed |-> {}, err |-> "nil",
     again |-> FALSE, firstRemoved |-> {}, firstFailed |-> {},
     firstErr |-> "nil"]

ParkedRotate ==
    /\ dir = <<>>
    /\ readable = TRUE
    /\ undeletable = {}
    /\ lastCall = NoCall

InitRotate ==
    /\ \E SA \in SUBSET JobArchives, SG \in SUBSET OtherGroups :
         \E mt \in [SA -> 1..MaxMTime] :
            dir = [n \in SA \union UNION SG |->
                     IF n \in SA THEN [mtime |-> mt[n], isDir |-> FALSE]
                     ELSE [mtime |-> 1, isDir |-> n \in SubdirNames]]
    /\ readable = TRUE
    /\ undeletable = {}
    /\ lastCall = NoCall

\* one call of CleanupOldBackups with the faults of this call, which
\* readable and undeletable record: a removal that fails in one call may
\* succeed in the next. again says that the call before was a rotation with
\* the same arguments, whose outcome the fields firstRemoved, firstFailed
\* and firstErr keep.
Rotate(prefix, maxBackups, fault) ==
    LET again == /\ lastCall.op = "rotate"
                 /\ lastCall.prefix = prefix
                 /\ lastCall.maxBackups = maxBackups
    IN \E r \in {CleanupOldBackups(dir, prefix, maxBackups, fault.undeletable,
                                   fault.readable)} :
       /\ dir' = r.dir
       /\ lastCall' = [op |-> "rotate", prefix |-> prefix, maxBackups |-> maxBackups,
                       before |-> dir, selected |-> r.selected, removed |-> r.removed,
                       failed |-> r.failed, err |-> r.err, again |-> again,
                       firstRemoved |-> IF again THEN lastCall.removed ELSE {},
                       firstFailed |-> IF again THEN lastCall.failed ELSE {},
                       firstErr |-> IF again THEN lastCall.err ELSE "nil"]
       /\ readable' = fault.readable
       /\ undeletable' = fault.undeletable

\* CopyFile writes a new archive into the directory (os.Create truncates an
\* existing file); its modification time is the latest
WriteFile(name) ==
    /\ dir' = [n \in DOMAIN dir \union {name} |->
                 IF n = name THEN [mtime |-> MaxMTime, isDir |-> FALSE] ELSE dir[n]]
    /\ lastCall' = [NoCall EXCEPT !.op = "write"]
    /\ UNCHANGED <<readable, undeletable>>

RotateCalls ==
    {<<JobPrefix, m>> : m \in 0..MaxKeep} \union {<<OthPrefix, 0>>}

NextRotate ==
    \/ /\ \E c \in RotateCalls, fault \in FaultChoices : Rotate(c[1], c[2], fault)
       /\ UNCHANGED <<varsConfig, varsRun, varsEdit, varsExclude, runAll>>
    \/ /\ \E name \in JobArchives : WriteFile(name)
       /\ UNCHANGED <<varsConfig, varsRun, varsEdit, varsExclude, runAll>>

-----------------------------------------------------------------------------
(* The configuration file *)

ReadBackupConfig_ZeroOnly(file) ==
    IF file.state # "ok"
    THEN [err |-> file.state, config |-> NoConfig]
    ELSE [err |-> "nil",
          config |-> [file.doc EXCEPT !.Targets =
              [i \in 1..Len(file.doc.Targets) |->
                  IF file.doc.Targets[i].MaxBackups = 0
                  THEN [file.doc.Targets[i] EXCEPT !.MaxBackups = DefaultMaxBackups]
                  ELSE file.doc.Targets[i]]]]

\* ReadBackupConfig: an error when the file is missing or does not parse,
\* otherwise the document with every maxBackups <= 0 set to the default
ReadBackupConfig(file) ==
    IF file.state # "ok"
    THEN [err |-> file.state, config |-> NoConfig]
    ELSE [err |-> "nil",
          config |-> [file.doc EXCEPT !.Targets =
              [i \in 1..Len(file.doc.Targets) |->
                  IF file.doc.Targets[i].MaxBackups <= 0
                  THEN [file.doc.Targets[i] EXCEPT !.MaxBackups = DefaultMaxBackups]
                  ELSE file.doc.Targets[i]]]]

\* WriteBackupConfig: the whole document replaces the file
WriteBackupConfig(file, cfg, writeOk) ==
    IF writeOk THEN [state |-> "ok", doc |-> cfg] ELSE file

-----------------------------------------------------------------------------
(* The run command: app/cmd/run.go *)

SourceName == "job"
SourcePath == "/src/job"

\* time.Now().Format("20060102-150405")
FormatTimestamp(t) == ToString(t)

\* fmt.Sprintf("%s-%s.tar.gz", currentDir, timestamp)
BackupFileName(currentDir, t) == <<currentDir, "-", FormatTimestamp(t)>> \o TarGz

\* the sidecar base name of the run: TrimSuffix .tar.gz, then TrimSuffix .gpg
RunConfigBaseName(backupFileName) ==
    TrimSuffix(TrimSuffix(backupFileName, TarGz), <<".gpg">>)

NoRun ==
    [backupFileName |-> <<>>, tempBackupPath |-> <<>>, created |-> {},
     useEncryption |-> FALSE, receiver |-> "", destinations |-> <<>>,
     next |-> 1, exit |-> "", started |-> 0,
     log |-> <<>>, before |-> <<>>]

\* GPGEncrypt writes sourceFile + ".gpg" and returns its path
GPGEncrypt_InPlace(sourceFile) == sourceFile

GPGEncrypt(sourceFile) == sourceFile \o <<".gpg">>

\* useEncryption and encryptionReceiver, from the flags and the configuration
UseEncryption(cfg) ==
    \/ flags.encrypt
    \/ (cfg.Encryption # <<>> /\ cfg.Encryption[1].Method = "gpg")

EncryptionReceiver(cfg) ==
    IF ~flags.encrypt /\ cfg.Encryption # <<>> /\ cfg.Encryption[1].Method = "gpg"
          /\ flags.encryptTo = ""
    THEN cfg.Encryption[1].Receiver
    ELSE flags.encryptTo

\* the destinations of the loop: the --dest flag, or the Path of every target
DestinationsOf(cfg) ==
    IF flags.destination # "" THEN <<flags.destination>>
    ELSE [i \in 1..Len(cfg.Targets) |-> cfg.Targets[i].Path]

\* the run up to the loop over the destinations: the configuration is read,
\* the archive is built in the temporary directory and, if asked for,
\* encrypted. build and gpg are what CreateTarGzArchive and GPGEncrypt do:
\*   build = "declined": the size warning was not confirmed, exit 0
\*   build = "nocreate": os.Create of the temporary file fails
\*   build = "walkfail": the file is created and the walk fails
StartRun(build, gpg) ==
    LET read == ReadBackupConfig(saved)
        cfg == read.config
        name == BackupFileName(SourceName, clock)
        base == [NoRun EXCEPT !.backupFileName = name, !.tempBackupPath = name,
                              !.started = run.started + 1]
        useEncryption == UseEncryption(cfg)
        receiver == EncryptionReceiver(cfg)
        exited(r, reason) == [r EXCEPT !.exit = reason]
        built == [base EXCEPT !.created = {name}, !.useEncryption = useEncryption,
                              !.receiver = receiver]
    IN /\ pc \in {"idle", "done", "exited"}
       /\ run.started < MaxRuns
       /\ UNCHANGED <<saved, disk, clock, flags>>
       /\ IF read.err # "nil"
          THEN /\ pc' = "exited"
               /\ run' = exited(base, "config")
               /\ config' = NoConfig
               /\ tmp' = tmp
          ELSE /\ config' = cfg
               /\ CASE build = "declined" ->
                         /\ pc' = "exited"
                         /\ run' = exited(base, "declined")
                         /\ tmp' = tmp
                    [] build = "nocreate" ->
                         /\ pc' = "exited"
                         /\ run' = exited(base, "archive")
                         /\ tmp' = tmp
                    [] build = "walkfail" ->
                         /\ pc' = "exited"
                         /\ run' = exited(built, "archive")
                         /\ tmp' = tmp \union {name}
                    [] OTHER ->
                         IF useEncryption /\ receiver = ""
                         THEN /\ pc' = "exited"
                              /\ run' = exited(built, "recipient")
                              /\ tmp' = tmp \union {name}
                         ELSE IF useEncryption /\ gpg = "fail"
                         THEN /\ pc' = "exited"
                              /\ run' = exited(built, "encrypt")
                              /\ tmp' = tmp \union {name}
                         ELSE LET final == IF useEncryption
                                           THEN GPGEncrypt(name) ELSE name
                                  dests == DestinationsOf(cfg)
                                  r == [built EXCEPT
                                          !.backupFileName = final,
                                          !.tempBackupPath = final,
                                          !.created = {name, final},
                                          !.destinations = dests]
                              IN /\ tmp' = (tmp \ {name}) \union {final}
                                 /\ IF dests = <<>>
                                    THEN /\ pc' = "exited"
                                         /\ run' = exited(r, "nodest")
                                    ELSE /\ pc' = "copying"
                                         /\ run' = r

\* the first target whose Path is dest, 0 if none (matchedTarget)
RECURSIVE MatchedTargetFrom(_, _, _)
MatchedTargetFrom(targets, dest, i) ==
    IF i > Len(targets) THEN 0
    ELSE IF targets[i].Path = dest THEN i
    ELSE MatchedTargetFrom(targets, dest, i + 1)

\* the paths the runs are given as destinations: filepath.Base of each as
\* a name, filepath.Dir of each, and whether it ends with the separator.
\* The directory "/" holds the regular files written at these paths.
Root == "/"

PathBase(dest) ==
    CASE dest = "/d1" -> <<"d1">>
      [] dest = "/d2" -> <<"d2">>
      [] dest = "/d2/" -> <<"d2">>
      [] dest = "/d3" -> <<"d3">>
      [] dest = "/f1" -> <<"f1">>

PathDir(dest) == IF dest = "/d2/" THEN "/d2" ELSE Root

HasTrailingSeparator(dest) == dest = "/d2/"

\* os.Stat(dest) finds a directory
IsDirectory(dest) == dest # Root /\ dest \in DOMAIN disk

\* whether the loop treats dest as a file target: the matched target says,
\* or else a directory that exists or a path that ends with the separator
\* is a directory and anything else a file
DestIsFileTarget(cfg, dest) ==
    LET m == MatchedTargetFrom(cfg.Targets, dest, 1)
    IN IF m # 0 THEN IsFileTarget(cfg.Targets[m])
       ELSE IF IsDirectory(dest) THEN FALSE
       ELSE IF HasTrailingSeparator(dest) THEN FALSE
       ELSE TRUE

\* maxBackups of the rotation: the default, or that of the first target whose
\* destination is dest
RotationMaxBackups(cfg, dest) ==
    LET i == FindTarget(cfg, dest)
    IN IF i = 0 THEN DefaultMaxBackups ELSE cfg.Targets[i].MaxBackups

\* CopyFile(src, dst) into directory content d: "ok" writes the file, "partial"
\* creates it and fails while copying, "fail" fails before os.Create
CopyFile(d, name, outcome, now) ==
    IF outcome = "fail" \/ (name \in DOMAIN d /\ d[name].isDir) THEN d
    ELSE [n \in DOMAIN d \union {name} |->
             IF n = name THEN [mtime |-> now, isDir |-> FALSE] ELSE d[n]]

\* one pass of the loop over the destinations, for a directory destination
\* that exists: copy, rotate, record, save, copy the sidecar. The copy is
\* written at the time clock, the record and the sidecar at the time later.
ProcessDirectory(dest, copy, writeOk, sidecarOk, later) ==
    LET name == run.backupFileName
        copied == CopyFile(disk[dest], name, copy, clock)
        copyErr == copy # "ok" \/ (name \in DOMAIN disk[dest] /\ disk[dest][name].isDir)
        rotates == flags.configFile # "" \/ flags.destination = ""
        cleaned == IF rotates
                   THEN CleanupOldBackups(copied, <<SourceName, "-">>,
                                          RotationMaxBackups(config, dest),
                                          undeletable, readable).dir
                   ELSE copied
        records == rotates /\ flags.configFile # "" /\ name \in DOMAIN cleaned
        record == [Filename |-> name, Source |-> SourcePath, CreatedAt |-> later,
                   Size |-> 1024]
        cfg == AddBackupRecord(config, dest, record)
        sidecar == RunConfigBaseName(name) \o BackupYaml
        final == IF records /\ flags.copyConfig /\ sidecarOk
                 THEN CopyFile(cleaned, sidecar, "ok", later)
                 ELSE cleaned
    IN IF copyErr
       THEN /\ disk' = [disk EXCEPT ![dest] = copied]
            /\ UNCHANGED <<config, saved>>
       ELSE /\ disk' = [disk EXCEPT ![dest] = final]
            /\ config' = IF records THEN cfg ELSE config
            /\ saved' = IF records THEN WriteBackupConfig(saved, cfg, writeOk)
                        ELSE saved

\* os.Create(dest) of a file destination fails on the empty path and on a
\* directory
FileCreateFails(dest) == dest = "" \/ IsDirectory(dest)

\* one pass of the loop for a file destination: copy to the path itself,
\* no rotation, record, save, copy the sidecar next to the file. A copy
\* of "fail" is also MkdirAll of the parent failing: nothing is written.
ProcessFile(dest, copy, writeOk, sidecarOk, later) ==
    LET name == IF dest = "" THEN <<>> ELSE PathBase(dest)
        destDir == PathDir(dest)
        copyErr == copy # "ok" \/ FileCreateFails(dest)
        copied == IF FileCreateFails(dest) THEN disk[destDir]
                  ELSE CopyFile(disk[destDir], name, copy, clock)
        records == (flags.configFile # "" \/ flags.destination = "")
                     /\ flags.configFile # ""
        record == [Filename |-> name, Source |-> SourcePath, CreatedAt |-> later,
                   Size |-> 1024]
        cfg == AddBackupRecord(config, dest, record)
        sidecar == RunConfigBaseName(name) \o BackupYaml
        final == IF records /\ flags.copyConfig /\ sidecarOk
                 THEN CopyFile(copied, sidecar, "ok", later)
                 ELSE copied
    IN IF copyErr
       THEN /\ disk' = IF dest = "" THEN disk
                       ELSE [disk EXCEPT ![destDir] = copied]
            /\ UNCHANGED <<config, saved>>
       ELSE /\ disk' = [disk EXCEPT ![destDir] = final]
            /\ config' = IF records THEN cfg ELSE config
            /\ saved' = IF records THEN WriteBackupConfig(saved, cfg, writeOk)
                        ELSE saved

\* whether the pass for dest ends in an error message: the directory is
\* missing, or MkdirAll or CopyFile returns an error
DestinationFailed(dest, isFileTarget, copy) ==
    IF isFileTarget THEN copy # "ok" \/ FileCreateFails(dest)
    ELSE IF IsDirectory(dest)
    THEN copy # "ok" \/ (run.backupFileName \in DOMAIN disk[dest]
                         /\ disk[dest][run.backupFileName].isDir)
    ELSE TRUE

\* the index the loop goes to after a pass: continue, or the end of the loop
\* body, never a break or an exit
NextDestination_Abort(next, count, failed) ==
    IF failed THEN count + 1 ELSE next + 1

NextDestination(next, count, failed) == next + 1

\* one pass of the loop over the destinations, during which elapsed time
\* passes; log and before record the passes made and the state the latest
\* pass started from
ProcessDestination(copy, writeOk, sidecarOk, elapsed) ==
    LET dest == run.destinations[run.next]
        isFileTarget == DestIsFileTarget(config, dest)
        failed == DestinationFailed(dest, isFileTarget, copy)
    IN /\ pc = "copying"
       /\ run.next <= Len(run.destinations)
       /\ clock + elapsed <= MaxClock
       /\ clock' = clock + elapsed
       /\ run' = [run EXCEPT
                    !.next = NextDestination(run.next, Len(run.destinations), failed),
                    !.log = Append(@, [index |-> run.next, dest |-> dest,
                                       isFile |-> isFileTarget,
                                       failed |-> failed]),
                    !.before = <<[config |-> config, saved |-> saved,
                                  disk |-> disk]>>]
       /\ UNCHANGED <<tmp, flags, pc>>
       /\ IF isFileTarget
          THEN ProcessFile(dest, copy, writeOk, sidecarOk, clock + elapsed)
          ELSE IF IsDirectory(dest)
          THEN ProcessDirectory(dest, copy, writeOk, sidecarOk, clock + elapsed)
          ELSE \* a missing directory is skipped
               UNCHANGED <<config, saved, disk>>

\* after the loop: os.Remove(tempBackupPath)
FinishRun ==
    /\ pc = "copying"
    /\ run.next > Len(run.destinations)
    /\ tmp' = tmp \ {run.tempBackupPath}
    /\ pc' = "done"
    /\ UNCHANGED <<config, saved, disk, clock, flags, run>>

\* time passes, between two runs and between the steps of a run: the name
\* of the archive, the copies and the records each read the clock
Tick ==
    /\ pc \in {"idle", "done", "exited", "copying"}
    /\ clock < MaxClock
    /\ clock' = clock + 1
    /\ UNCHANGED <<config, saved, disk, tmp, flags, pc, run>>

-----------------------------------------------------------------------------
(* SpecRun: runs of one source, one after the other *)

\* targets as the configuration file holds them; LastRun is <<>> for nil
DirTarget(path, maxBackups) ==
    [Path |-> path, File |-> "", MaxBackups |-> maxBackups, Backups |-> <<>>,
     LastRun |-> <<>>]

FileTarget(file) ==
    [Path |-> "", File |-> file, MaxBackups |-> 0, Backups |-> <<>>,
     LastRun |-> <<>>]

RunTargetLists ==
    {<<DirTarget("/d1", m)>> : m \in 1..MaxKeep}
    \union {<<DirTarget("/d2", 1), DirTarget("/d1", 1)>>,
            <<DirTarget("/d3", 1), DirTarget("/d1", 1)>>,
            <<[DirTarget("/d1", 1) EXCEPT !.File = "/f1"]>>,
            <<[DirTarget("/d2", 1) EXCEPT !.File = "/f1"]>>,
            <<FileTarget("/f1"), DirTarget("/d1", 0)>>,
            <<>>}

RunEncryptions ==
    {<<>>, <<[Method |-> "gpg", Receiver |-> "key"]>>,
     <<[Method |-> "gpg", Receiver |-> ""]>>}

\* every target list without encryption, and one of them with each
\* encryption section
RunFiles ==
    {[state |-> "ok",
      doc |-> [Excludes |-> <<".git">>, Targets |-> ts, Encryption |-> <<>>]] :
        ts \in RunTargetLists}
    \union {[state |-> "ok",
              doc |-> [Excludes |-> <<".git">>,
                       Targets |-> <<DirTarget("/d1", 1)>>, Encryption |-> e]] :
                e \in RunEncryptions}
    \union {[state |-> "missing", doc |-> NoConfig]}

\* the flags of the runs: no --dest, or --dest with a path that is no
\* target's Path
RunFlags ==
    {[destination |-> d, configFile |-> ".backup.yaml", encrypt |-> FALSE,
      encryptTo |-> "", copyConfig |-> c] :
        d \in {"", "/f1", "/d2/"}, c \in BOOLEAN}

ParkedRun ==
    /\ saved = [state |-> "missing", doc |-> NoConfig]
    /\ disk = <<>>
    /\ tmp = {}
    /\ clock = 0
    /\ flags = [destination |-> "", configFile |-> "", encrypt |-> FALSE,
                encryptTo |-> "", copyConfig |-> FALSE]
    /\ pc = "parked"
    /\ run = NoRun

\* an archive of the source that a destination holds before the first run,
\* with a modification time later than that of any archive a run writes
LaterArchive == ArchiveName(SourceName, 0)

LaterDirectory ==
    [n \in {LaterArchive} |-> [mtime |-> MaxClock + 1, isDir |-> FALSE]]

\* the destinations /d1 and /d3 exist and /d2 does not; /d3 is empty, and so
\* is /d1 unless the configuration is the one directory target /d1 that
\* keeps one archive, where /d1 may hold the later archive
InitRun ==
    /\ saved \in RunFiles
    /\ flags \in RunFlags
    /\ flags.destination # "" =>
          /\ saved.state = "ok"
          /\ saved.doc.Targets = <<FileTarget("/f1"), DirTarget("/d1", 0)>>
    /\ \E d1 \in {<<>>, LaterDirectory} :
          /\ disk = [p \in {Root, "/d1", "/d3"} |->
                        IF p = "/d1" THEN d1 ELSE <<>>]
          /\ d1 # <<>> =>
                /\ saved.state = "ok"
                /\ saved.doc.Targets = <<DirTarget("/d1", 1)>>
                /\ saved.doc.Encryption = <<>>
    /\ tmp = {}
    /\ clock = 1
    /\ pc = "idle"
    /\ run = NoRun
    /\ config = NoConfig
    /\ initConfig = NoConfig
    /\ appended = <<>>
    /\ lastRecord = <<>>
    /\ inOrder = <<>>
    /\ dir = <<>>
    /\ readable = TRUE
    /\ undeletable \in {{}, {A1}}
    /\ undeletable # {} =>
          /\ saved.state = "ok"
          /\ Len(saved.doc.Targets) = 1
          /\ saved.doc.Targets[1].File = ""
          /\ saved.doc.Encryption = <<>>
    /\ lastCall = NoCall
    /\ ParkedEdit
    /\ ParkedExclude
    /\ ParkedRunAll

NextRun ==
    \/ /\ \E build \in {"ok", "declined", "nocreate", "walkfail"},
             gpg \in {"ok", "fail"} : StartRun(build, gpg)
       /\ UNCHANGED <<initConfig, appended, lastRecord, inOrder, varsRotate,
                      varsEdit, varsExclude, runAll>>
    \/ /\ \E copy \in {"ok", "partial", "fail"}, writeOk \in BOOLEAN,
             sidecarOk \in BOOLEAN, elapsed \in 0..1 :
                ProcessDestination(copy, writeOk, sidecarOk, elapsed)
       /\ UNCHANGED <<initConfig, appended, lastRecord, inOrder, varsRotate,
                      varsEdit, varsExclude, runAll>>
    \/ /\ FinishRun
       /\ UNCHANGED <<initConfig, appended, lastRecord, inOrder, varsRotate,
                      varsEdit, varsExclude, runAll>>
    \/ /\ Tick
       /\ UNCHANGED <<initConfig, appended, lastRecord, inOrder, varsRotate,
                      varsEdit, varsExclude, runAll>>

-----------------------------------------------------------------------------
(* SpecEdit: the config command: the configuration file is loaded, targets
   are added and deleted, encryption is enabled and disabled, and the
   configuration is written back when a call changed it *)

\* --add-target is given while the configuration holds fewer than MaxTargets
MaxTargets == 3

AddTarget_ByPath(cfg, target) ==
    IF \E i \in 1..Len(cfg.Targets) : cfg.Targets[i].Path = target.Path
    THEN [added |-> FALSE, config |-> cfg]
    ELSE [added |-> TRUE, config |-> [cfg EXCEPT !.Targets = Append(@, target)]]

\* AddTarget: false when a target has the same GetDestination, else append
AddTarget(cfg, target) ==
    IF \E i \in 1..Len(cfg.Targets) :
          GetDestination(cfg.Targets[i]) = GetDestination(target)
    THEN [added |-> FALSE, config |-> cfg]
    ELSE [added |-> TRUE, config |-> [cfg EXCEPT !.Targets = Append(@, target)]]

\* the first target whose GetDestination is targetPath, 0 if none
RECURSIVE DeleteIndexFrom(_, _, _)
DeleteIndexFrom(targets, targetPath, i) ==
    IF i > Len(targets) THEN 0
    ELSE IF GetDestination(targets[i]) = targetPath THEN i
    ELSE DeleteIndexFrom(targets, targetPath, i + 1)

\* DeleteTarget: the first target of that destination is removed
DeleteTarget(cfg, targetPath) ==
    LET idx == DeleteIndexFrom(cfg.Targets, targetPath, 1)
    IN IF idx = 0 THEN [deleted |-> FALSE, config |-> cfg]
       ELSE [deleted |-> TRUE,
             config |-> [cfg EXCEPT !.Targets =
                            SubSeq(@, 1, idx - 1) \o SubSeq(@, idx + 1, Len(@))]]

\* EnableEncryption: an error without a receiver, when gpg --list-keys
\* fails ("error") or knows no such key ("nokey"); else method and receiver
\* are set
EnableEncryption(cfg, receiver, keyring) ==
    IF receiver = "" THEN [err |-> "receiver", config |-> cfg]
    ELSE IF keyring = "error" THEN [err |-> "validate", config |-> cfg]
    ELSE IF keyring = "nokey" THEN [err |-> "invalid", config |-> cfg]
    ELSE [err |-> "nil",
          config |-> [cfg EXCEPT !.Encryption =
                         <<[Method |-> "gpg", Receiver |-> receiver]>>]]

\* DisableEncryption: the encryption section is removed if there is one
DisableEncryption(cfg) ==
    IF cfg.Encryption # <<>>
    THEN [changed |-> TRUE, config |-> [cfg EXCEPT !.Encryption = <<>>]]
    ELSE [changed |-> FALSE, config |-> cfg]

\* the <<Path, File>> of the targets: two directories, a file, both, neither
TargetShapes == {<<"/a", "">>, <<"/b", "">>, <<"", "/a">>, <<"/a", "/b">>, <<"", "">>}

\* targets as the configuration file may hold them; maxBackups 0 is unset
EditTargets ==
    {[Path |-> sh[1], File |-> sh[2], MaxBackups |-> m, Backups |-> <<>>] :
        sh \in TargetShapes, m \in (-1)..MaxKeep}

\* targets as AddTarget is given them
NewTargets == {t \in EditTargets : t.MaxBackups = 0}

EditTargetLists ==
    {<<>>} \union {<<t>> : t \in EditTargets}
           \union {<<t, u>> : t \in EditTargets, u \in EditTargets}

EditFiles ==
    {[state |-> "ok", doc |-> [Excludes |-> <<>>, Targets |-> ts, Encryption |-> <<>>]] :
        ts \in EditTargetLists}
    \union {[state |-> st, doc |-> NoConfig] : st \in {"missing", "unparseable"}}

\* no two targets of cfg have the same GetDestination
DuplicateFree(cfg) ==
    \A i, j \in 1..Len(cfg.Targets) :
        i # j => GetDestination(cfg.Targets[i]) # GetDestination(cfg.Targets[j])

NoTarget == [Path |-> "", File |-> "", MaxBackups |-> 0, Backups |-> <<>>]

InitEdit ==
    /\ saved \in EditFiles
    /\ config = NoConfig
    /\ lastOp = NoOp
    /\ registry = NoRegistry
    /\ initConfig = NoConfig
    /\ appended = <<>>
    /\ lastRecord = <<>>
    /\ inOrder = <<>>
    /\ ParkedRotate
    /\ disk = <<>>
    /\ tmp = {}
    /\ clock = 0
    /\ flags = [destination |-> "", configFile |-> "", encrypt |-> FALSE,
                encryptTo |-> "", copyConfig |-> FALSE]
    /\ pc = "parked"
    /\ run = NoRun
    /\ ParkedExclude
    /\ ParkedRunAll

\* the command is past its encryption step with configChanged set: nothing
\* but the write of the file lies ahead. (After --add-target and
\* --delete-target the command can still return without a write, when both
\* encryption flags are given.)
MustWrite ==
    /\ lastOp.op \in {"enable", "disable"}
    /\ lastOp.err = "nil"
    /\ lastOp.changed

\* a command starts when the one before it has ended:
\* config, err := ReadBackupConfig(configFile)
Load ==
    LET read == ReadBackupConfig(saved)
    IN /\ ~MustWrite
       /\ config' = read.config
       /\ lastOp' = [op |-> "load", err |-> read.err, file |-> saved,
                     target |-> NoTarget, added |-> FALSE, before |-> config,
                     dupFree |-> DuplicateFree(read.config),
                     changed |-> FALSE]
       /\ UNCHANGED saved

\* the steps of the command in their order: read, --add-target,
\* --delete-target, --enable-encryption or --disable-encryption, write
StepRank(op) ==
    CASE op = "load" -> 1 [] op = "add" -> 2 [] op = "delete" -> 3
      [] op = "enable" -> 4 [] op = "disable" -> 4 [] op = "save" -> 5
      [] OTHER -> 0

\* the command has read the configuration, no call returned an error, and
\* the step of the given rank is still ahead
Editing(rank) ==
    /\ lastOp.op # "none"
    /\ lastOp.err = "nil"
    /\ StepRank(lastOp.op) < rank

\* added := AddTarget(config, target)
AddTargetCall(target) ==
    LET r == AddTarget(config, target)
    IN /\ Editing(2)
       /\ Len(config.Targets) < MaxTargets
       /\ config' = r.config
       /\ lastOp' = [op |-> "add", err |-> "nil", file |-> saved,
                     target |-> target, added |-> r.added, before |-> config,
                     dupFree |-> lastOp.dupFree,
                     changed |-> lastOp.changed \/ r.added]
       /\ UNCHANGED saved

\* the --delete-target paths
DeletePaths == {"/a", "/b"}

\* deleted := DeleteTarget(config, deleteTarget)
DeleteTargetCall(targetPath) ==
    LET r == DeleteTarget(config, targetPath)
    IN /\ Editing(3)
       /\ config' = r.config
       /\ lastOp' = [op |-> "delete", err |-> "nil", file |-> saved,
                     target |-> NoTarget, added |-> FALSE, before |-> config,
                     dupFree |-> lastOp.dupFree,
                     changed |-> lastOp.changed \/ r.deleted]
       /\ UNCHANGED saved

\* keyInfo, err := EnableEncryption(config, gpgReceiver); on an error the
\* command returns without writing the file
EnableEncryptionCall(receiver, keyring) ==
    LET r == EnableEncryption(config, receiver, keyring)
    IN /\ Editing(4)
       /\ config' = r.config
       /\ lastOp' = [op |-> "enable", err |-> r.err, file |-> saved,
                     target |-> NoTarget, added |-> FALSE, before |-> config,
                     dupFree |-> lastOp.dupFree,
                     changed |-> IF r.err = "nil" THEN TRUE ELSE lastOp.changed]
       /\ UNCHANGED saved

\* changed := DisableEncryption(config)
DisableEncryptionCall ==
    LET r == DisableEncryption(config)
    IN /\ Editing(4)
       /\ config' = r.config
       /\ lastOp' = [op |-> "disable", err |-> "nil", file |-> saved,
                     target |-> NoTarget, added |-> FALSE, before |-> config,
                     dupFree |-> lastOp.dupFree,
                     changed |-> lastOp.changed \/ r.changed]
       /\ UNCHANGED saved

\* if configChanged: WriteBackupConfig(configFile, config), the last step of
\* the command
SaveConfig(writeOk) ==
    /\ Editing(5)
    /\ lastOp.changed
    /\ saved' = WriteBackupConfig(saved, config, writeOk)
    /\ lastOp' = [op |-> "save", err |-> IF writeOk THEN "nil" ELSE "write",
                  file |-> saved, target |-> NoTarget, added |-> FALSE,
                  before |-> config, dupFree |-> lastOp.dupFree,
                  changed |-> FALSE]
    /\ UNCHANGED config

NextEdit ==
    \/ /\ Load
       /\ UNCHANGED <<initConfig, appended, lastRecord, inOrder, varsRotate,
                      disk, tmp, clock, flags, pc, run, registry, varsExclude, runAll>>
    \/ /\ \E target \in NewTargets : AddTargetCall(target)
       /\ UNCHANGED <<initConfig, appended, lastRecord, inOrder, varsRotate,
                      disk, tmp, clock, flags, pc, run, registry, varsExclude, runAll>>
    \/ /\ \E targetPath \in DeletePaths : DeleteTargetCall(targetPath)
       /\ UNCHANGED <<initConfig, appended, lastRecord, inOrder, varsRotate,
                      disk, tmp, clock, flags, pc, run, registry, varsExclude, runAll>>
    \/ /\ \E receiver \in {"", "key"}, keyring \in {"found", "nokey", "error"} :
             EnableEncryptionCall(receiver, keyring)
       /\ UNCHANGED <<initConfig, appended, lastRecord, inOrder, varsRotate,
                      disk, tmp, clock, flags, pc, run, registry, varsExclude, runAll>>
    \/ /\ DisableEncryptionCall
       /\ UNCHANGED <<initConfig, appended, lastRecord, inOrder, varsRotate,
                      disk, tmp, clock, flags, pc, run, registry, varsExclude, runAll>>
    \/ /\ \E writeOk \in BOOLEAN : SaveConfig(writeOk)
       /\ UNCHANGED <<initConfig, appended, lastRecord, inOrder, varsRotate,
                      disk, tmp, clock, flags, pc, run, registry, varsExclude, runAll>>

-----------------------------------------------------------------------------
(* SpecRegistry: UpdateGlobalRegistry on the registry file ~/.backup.yaml *)

\* UpdateGlobalRegistry is called at most MaxUpdates times
MaxUpdates == 3

\* paths are sequences of segments, absolute when the first one is "/"
Cwd == <<"/", "w">>

\* filepath.Clean, as far as the "." segments of the paths used here
Clean(path) ==
    LET NotDot(seg) == seg # "."
    IN SelectSeq(path, NotDot)

\* filepath.Abs: a relative path is joined to the working directory
Abs(path) ==
    IF path # <<>> /\ Head(path) = "/" THEN Clean(path) ELSE Clean(Cwd \o path)

\* yaml.Unmarshal into GlobalBackupRegistry: the struct has fields for
\* default.encryption and backups only, other keys of the document are not
\* decoded
UnmarshalRegistry(doc) ==
    [Default |-> [Encryption |-> doc.default.encryption], Backups |-> doc.backups]

\* yaml.Marshal of a GlobalBackupRegistry
MarshalRegistry(reg) ==
    [default |-> [encryption |-> reg.Default.Encryption, target |-> <<>>],
     backups |-> reg.Backups]

\* the index of the first entry whose Location is absPath, 0 if none
RECURSIVE FindLocation(_, _, _)
FindLocation(backups, absPath, i) ==
    IF i > Len(backups) THEN 0
    ELSE IF backups[i].Location = absPath THEN i
    ELSE FindLocation(backups, absPath, i + 1)

UpsertEntry_AlwaysAppend(backups, absPath, now) ==
    Append(backups, [Location |-> absPath, RunAt |-> now])

\* update the RunAt of the entry of absPath, or append a new entry
UpsertEntry(backups, absPath, now) ==
    LET i == FindLocation(backups, absPath, 1)
    IN IF i # 0 THEN [backups EXCEPT ![i].RunAt = now]
       ELSE Append(backups, [Location |-> absPath, RunAt |-> now])

UpdateGlobalRegistry_CreatesFile(file, localConfigDir, now, writeOk) ==
    LET reg == IF file.state = "ok" THEN UnmarshalRegistry(file.doc)
               ELSE [Default |-> [Encryption |-> <<>>], Backups |-> <<>>]
        updated == [reg EXCEPT !.Backups = UpsertEntry(@, Abs(localConfigDir), now)]
    IN IF file.state = "unparseable" THEN [err |-> "parse", file |-> file]
       ELSE IF ~writeOk THEN [err |-> "write", file |-> file]
       ELSE [err |-> "nil",
             file |-> [state |-> "ok", doc |-> MarshalRegistry(updated)]]

\* UpdateGlobalRegistry(localConfigDir): the error it returns and the file
\* it leaves
UpdateGlobalRegistry(file, localConfigDir, now, writeOk) ==
    IF file.state = "missing" THEN [err |-> "nil", file |-> file]
    ELSE IF file.state # "ok" THEN [err |-> "parse", file |-> file]
    ELSE LET reg == UnmarshalRegistry(file.doc)
             updated == [reg EXCEPT
                           !.Backups = UpsertEntry(@, Abs(localConfigDir), now)]
         IN IF ~writeOk THEN [err |-> "write", file |-> file]
            ELSE [err |-> "nil",
                  file |-> [state |-> "ok", doc |-> MarshalRegistry(updated)]]

\* the directories the calls are given: two absolute ones and two spellings
\* of the first, relative to the working directory
LocalDirs == {<<"/", "w", "a">>, <<"/", "w", "b">>, <<"a">>, <<".", "a">>}

RegistryEncryptions == {<<>>, <<[Method |-> "gpg", Receiver |-> "key"]>>}

\* default.target of the registry file: the target mappings init reads
RegistryTargetDefaults == {<<>>, <<[base |-> "/w", targets |-> <<"/mnt">>]>>}

RegistryBackups ==
    {<<>>,
     <<[Location |-> <<"/", "w", "a">>, RunAt |-> 0]>>,
     <<[Location |-> <<"/", "w", "c">>, RunAt |-> 0],
       [Location |-> <<"/", "w", "b">>, RunAt |-> 0]>>}

RegistryFiles ==
    {[state |-> "ok", doc |-> [default |-> [encryption |-> e, target |-> t],
                               backups |-> b]] :
        e \in RegistryEncryptions, t \in RegistryTargetDefaults,
        b \in RegistryBackups}
    \union {[state |-> st, doc |-> <<>>] : st \in {"missing", "unparseable"}}

InitRegistry ==
    /\ registry \in RegistryFiles
    /\ lastOp = [op |-> "none", err |-> "nil", dupFree |-> TRUE,
                 location |-> <<>>, before |-> registry, initial |-> registry,
                 passed |-> {}, calls |-> 0]
    /\ clock = 1
    /\ ParkedConfig
    /\ ParkedRotate
    /\ saved = [state |-> "missing", doc |-> NoConfig]
    /\ disk = <<>>
    /\ tmp = {}
    /\ flags = [destination |-> "", configFile |-> "", encrypt |-> FALSE,
                encryptTo |-> "", copyConfig |-> FALSE]
    /\ pc = "parked"
    /\ run = NoRun
    /\ ParkedExclude
    /\ ParkedRunAll

\* err := UpdateGlobalRegistry(localConfigDir)
UpdateRegistry(localConfigDir, writeOk) ==
    LET r == UpdateGlobalRegistry(registry, localConfigDir, clock, writeOk)
    IN /\ lastOp.calls < MaxUpdates
       /\ registry' = r.file
       /\ lastOp' = [lastOp EXCEPT
                       !.op = "update", !.err = r.err,
                       !.location = localConfigDir, !.before = registry,
                       !.passed = IF r.err = "nil" /\ registry.state = "ok"
                                  THEN @ \union {Abs(localConfigDir)} ELSE @,
                       !.calls = @ + 1]
       /\ UNCHANGED clock

\* time passes between two calls
RegistryTick ==
    /\ clock < MaxClock
    /\ clock' = clock + 1
    /\ UNCHANGED <<registry, lastOp>>

NextRegistry ==
    \/ /\ \E d \in LocalDirs, writeOk \in BOOLEAN : UpdateRegistry(d, writeOk)
       /\ UNCHANGED <<varsConfig, varsRotate, saved, disk, tmp, flags, pc, run,
                      varsExclude, runAll>>
    \/ /\ RegistryTick
       /\ UNCHANGED <<varsConfig, varsRotate, saved, disk, tmp, flags, pc, run,
                      varsExclude, runAll>>

-----------------------------------------------------------------------------
(* SpecExclude: the exclusion patterns in the archive and the size analysis *)
(* Paths and patterns are sequences of characters.                          *)

\* the patterns are the strings of at most MaxPatternLen characters
MaxPatternLen == 3
\* CheckFileSizes and ListLargeFiles are called with a threshold in
\* -1..MaxThreshold
MaxThreshold == 2

\* file sizes are counted in KiB
MB == 1024
GB == 1024 * MB

Alphabet == {"a", "b", "/", "*"}

\* filepath.Match for patterns over the alphabet: "*" matches any sequence
\* of characters other than the separator, any other character itself
RECURSIVE Match(_, _)
Match(pattern, name) ==
    IF pattern = <<>> THEN name = <<>>
    ELSE IF Head(pattern) = "*"
    THEN \/ Match(Tail(pattern), name)
         \/ (name # <<>> /\ Head(name) # "/" /\ Match(pattern, Tail(name)))
    ELSE name # <<>> /\ Head(pattern) = Head(name)
                    /\ Match(Tail(pattern), Tail(name))

\* strings.Contains
Contains(str, substr) ==
    \E i \in 1..(Len(str) + 1) :
        /\ i + Len(substr) - 1 <= Len(str)
        /\ SubSeq(str, i, i + Len(substr) - 1) = substr

\* the test of the walk of CreateTarGzArchive on one relative path
ArchiveExcluded(relPath, excl) ==
    \E k \in 1..Len(excl) :
        \/ Match(excl[k], relPath)
        \/ Contains(relPath, excl[k])
        \/ HasPrefix(relPath, excl[k])

checkExcluded_MatchOnly(relPath, excl) ==
    \E k \in 1..Len(excl) : Match(excl[k], relPath)

\* checkExcluded of filesize.go: a glob match, or the pattern as a prefix
\* that ends at the end of the path or at a separator
checkExcluded(relPath, excl) ==
    \E k \in 1..Len(excl) :
        LET exclude == excl[k]
            matched == Match(exclude, relPath)
        IN \/ /\ ~matched
              /\ HasPrefix(relPath, exclude)
              /\ \/ Len(relPath) = Len(exclude)
                 \/ (Len(relPath) > Len(exclude)
                       /\ relPath[Len(exclude) + 1] = "/")
           \/ matched

\* the directories above a relative path
Ancestors(path) ==
    {SubSeq(path, 1, i - 1) : i \in {j \in 1..Len(path) : path[j] = "/"}}

\* os.TempDir()
TempDir == <<"/", "b">>

\* filepath.Join(sourceDir, relPath), the path filepath.Walk passes
Join(sourceDir, relPath) ==
    IF sourceDir = <<"/">> THEN sourceDir \o relPath
    ELSE sourceDir \o <<"/">> \o relPath

\* CreateTarGzArchive: filepath.Walk calls the function on a path unless a
\* directory above it returned SkipDir; an excluded path writes no header,
\* and neither does a path that starts with the temporary directory
CreateTarGzArchive(sourceDir, t, excl) ==
    {path \in DOMAIN t :
        /\ \A above \in Ancestors(path) : ~ArchiveExcluded(above, excl)
        /\ ~ArchiveExcluded(path, excl)
        /\ ~HasPrefix(Join(sourceDir, path), TempDir)}

\* CheckFileSizes: the files added to TotalSize, and FilesOverSize
CheckFileSizes(t, excl, maxSizeGB) ==
    LET maxSize == maxSizeGB * GB
        walked == {path \in DOMAIN t :
                      ~t[path].isDir /\ ~checkExcluded(path, excl)}
    IN [counted |-> walked,
        FilesOverSize |-> {path \in walked :
                              maxSize > 0 /\ t[path].size > maxSize}]

\* ListLargeFiles: the files larger than the threshold
ListLargeFiles(t, excl, thresholdMB) ==
    LET thresholdBytes == thresholdMB * MB
    IN {path \in DOMAIN t :
           /\ ~t[path].isDir
           /\ ~checkExcluded(path, excl)
           /\ t[path].size > thresholdBytes}

\* a source tree from the sizes of its regular files
TreeOf(sizes) ==
    LET files == DOMAIN sizes
        dirs == UNION {Ancestors(f) : f \in files}
    IN [path \in files \union dirs |->
           [isDir |-> path \notin files,
            size |-> IF path \in files THEN sizes[path] ELSE 0]]

\* two trees with nested directories; files that are empty, below one MB,
\* between one MB and one GB, and above one GB
SourceTrees ==
    {TreeOf(<<"a", "/", "a">> :> 1 @@ <<"a", "/", "b", "/", "a">> :> GB + 1
               @@ <<"a", "b">> :> MB + 1 @@ <<"b">> :> 0),
     TreeOf(<<"b", "/", "a">> :> 2 * MB @@ <<"b", "a", "/", "b">> :> 0
               @@ <<"a">> :> 2 * GB)}

Patterns == UNION {[1..n -> Alphabet] : n \in 0..MaxPatternLen}

\* one pattern, or the pattern "b" and another one after it
ExcludeLists ==
    {<<>>} \union {<<e>> : e \in Patterns} \union {<<<<"b">>, e>> : e \in Patterns}

\* the source directory: outside the temporary directory, the root, below
\* the temporary directory, and next to it with a name that starts like it
SourceDirs == {<<"/", "a">>, <<"/">>, <<"/", "b", "/", "a">>, <<"/", "b", "a">>}

InitExclude ==
    /\ tree \in SourceTrees
    /\ excludes \in ExcludeLists
    /\ archive \in {[NoArchive EXCEPT !.sourceDir = s] : s \in SourceDirs}
    /\ analysis = NoAnalysis
    /\ ParkedConfig
    /\ ParkedRotate
    /\ ParkedRun
    /\ ParkedEdit
    /\ ParkedRunAll

\* CreateTarGzArchive(source, tempBackupPath, configExcludes)
Build ==
    /\ ~archive.done
    /\ archive' = [archive EXCEPT
                      !.done = TRUE,
                      !.names = CreateTarGzArchive(archive.sourceDir, tree,
                                                   excludes)]
    /\ UNCHANGED <<tree, excludes, analysis>>

\* CheckFileSizes and ListLargeFiles on the same tree and patterns
Analyse(maxSizeGB, thresholdMB) ==
    /\ ~analysis.done
    /\ analysis' =
          LET summary == CheckFileSizes(tree, excludes, maxSizeGB)
          IN [done |-> TRUE,
              counted |-> summary.counted,
              over |-> summary.FilesOverSize,
              large |-> ListLargeFiles(tree, excludes, thresholdMB),
              maxSizeGB |-> maxSizeGB,
              thresholdMB |-> thresholdMB]
    /\ UNCHANGED <<tree, excludes, archive>>

NextExclude ==
    \/ /\ Build
       /\ UNCHANGED <<varsConfig, varsRotate, varsRun, varsEdit, runAll>>
    \/ /\ \E maxSizeGB, thresholdMB \in -1..MaxThreshold :
             Analyse(maxSizeGB, thresholdMB)
       /\ UNCHANGED <<varsConfig, varsRotate, varsRun, varsEdit, runAll>>

-----------------------------------------------------------------------------
(* SpecRunAll: the run-all command over the locations of the registry *)

\* the registry holds at most MaxLocations locations
MaxLocations == 3

\* ReadGlobalRegistry: an error when ~/.backup.yaml is missing or does not
\* parse, otherwise the decoded registry
ReadGlobalRegistry(file) ==
    IF file.state = "missing"
    THEN [err |-> "missing", registry |-> <<>>]
    ELSE IF file.state # "ok"
    THEN [err |-> "parse", registry |-> <<>>]
    ELSE [err |-> "nil", registry |-> UnmarshalRegistry(file.doc)]

\* what the loop finds at a location:
\*   "missing":  os.Stat(entry.Location) says the directory does not exist
\*   "noconfig": the directory has no .backup.yaml
\*   "fails":    `go-backup run` for the location exits non-zero
\*   "ok":       `go-backup run` for the location exits zero
Findings == {"missing", "noconfig", "fails", "ok"}

\* the index the loop goes to after an error: the next entry with
\* --continue, the end of the loop (break) without
AfterError_AlwaysContinue(next, count, continueOnError) == next + 1

AfterError(next, count, continueOnError) ==
    IF continueOnError THEN next + 1 ELSE count + 1

\* the exit status after the summary
ExitStatus(errorCount, missingCount) ==
    IF errorCount > 0 \/ missingCount > 0 THEN 1 ELSE 0

RunAllLocations == [i \in 1..MaxLocations |-> <<"/", "w", ToString(i)>>]

RunAllFiles ==
    {[state |-> "ok",
      doc |-> [default |-> [encryption |-> <<>>, target |-> <<>>],
               backups |-> [i \in 1..n |->
                               [Location |-> RunAllLocations[i], RunAt |-> 0]]]] :
        n \in 0..MaxLocations}
    \union {[state |-> st, doc |-> <<>>] : st \in {"missing", "unparseable"}}

InitRunAll ==
    /\ registry \in RunAllFiles
    /\ \E c \in BOOLEAN, f \in [1..MaxLocations -> Findings] :
          runAll = [NoRunAll EXCEPT !.pc = "start", !.continueOnError = c,
                                    !.found = f]
    /\ lastOp = NoOp
    /\ ParkedConfig
    /\ ParkedRotate
    /\ ParkedRun
    /\ ParkedExclude

\* the command up to the loop: the registry is read
ReadRegistry ==
    LET read == ReadGlobalRegistry(registry)
    IN /\ runAll.pc = "start"
       /\ runAll' =
             IF read.err # "nil"
             THEN [runAll EXCEPT !.pc = "exited", !.exit = 1]
             ELSE IF Len(read.registry.Backups) = 0
             THEN [runAll EXCEPT !.pc = "exited", !.exit = 0]
             ELSE [runAll EXCEPT !.pc = "loop", !.backups = read.registry.Backups]

\* one pass of the loop over registry.Backups
ProcessLocation ==
    LET i == runAll.next
        count == Len(runAll.backups)
        finding == runAll.found[i]
        after == AfterError(i, count, runAll.continueOnError)
        seen == [runAll EXCEPT !.processed = Append(@, i)]
    IN /\ runAll.pc = "loop"
       /\ i <= count
       /\ runAll' =
             IF finding \in {"missing", "noconfig"}
             THEN [seen EXCEPT !.missingCount = @ + 1, !.next = after]
             ELSE IF finding = "fails"
             THEN [seen EXCEPT !.errorCount = @ + 1, !.next = after]
             ELSE [seen EXCEPT !.successCount = @ + 1, !.next = i + 1]

\* after the loop: the summary and the exit status
Summary ==
    /\ runAll.pc = "loop"
    /\ runAll.next > Len(runAll.backups)
    /\ runAll' = [runAll EXCEPT
                    !.pc = "exited",
                    !.exit = ExitStatus(runAll.errorCount, runAll.missingCount)]

NextRunAll ==
    \/ /\ ReadRegistry
       /\ UNCHANGED <<varsConfig, varsRotate, varsRun, varsEdit, varsExclude>>
    \/ /\ ProcessLocation
       /\ UNCHANGED <<varsConfig, varsRotate, varsRun, varsEdit, varsExclude>>
    \/ /\ Summary
       /\ UNCHANGED <<varsConfig, varsRotate, varsRun, varsEdit, varsExclude>>

-----------------------------------------------------------------------------
(* Claims about AddBackupRecord, checked under SpecConfig *)

IsDirTarget(i) == ~IsFileTarget(config.Targets[i])

StartedEmpty(i) == initConfig.Targets[i].Backups = <<>>

\* C1: a directory target with maxBackups = k > 0 that starts with an empty
\* history holds exactly min(N, k) records after N appends.
C1_LengthIsMinOfAppendsAndLimit ==
    \A i \in 1..Len(config.Targets) :
        (/\ IsDirTarget(i)
         /\ StartedEmpty(i)
         /\ initConfig.Targets[i].MaxBackups > 0)
        => Len(config.Targets[i].Backups) =
               Min(appended[i], initConfig.Targets[i].MaxBackups)

\* C1 witness: more records were appended to such a target than its limit.
C1_Witness ==
    \E i \in 1..Len(config.Targets) :
        /\ IsDirTarget(i)
        /\ StartedEmpty(i)
        /\ initConfig.Targets[i].MaxBackups > 0
        /\ appended[i] > initConfig.Targets[i].MaxBackups
        /\ Len(config.Targets[i].Backups) = initConfig.Targets[i].MaxBackups

\* C2 as stated: whatever createdAt values the appended records carry, the
\* history of a directory target that started empty is sorted newest-first.
C2_AlwaysNewestFirst ==
    \A i \in 1..Len(config.Targets) :
        (IsDirTarget(i) /\ StartedEmpty(i))
        => NewestFirst(config.Targets[i].Backups)

\* C2 amended: the history of a directory target is sorted newest-first by
\* createdAt whenever it started sorted and no appended record was earlier
\* than the record at the head of the list when it was appended.
C2_NewestFirstWhenAppendedInOrder ==
    \A i \in 1..Len(config.Targets) :
        (IsDirTarget(i) /\ inOrder[i])
        => NewestFirst(config.Targets[i].Backups)

\* C2 witness: two records with different createdAt values were appended in
\* order to a directory target and both are kept.
C2_Witness ==
    \E i \in 1..Len(config.Targets) :
        /\ IsDirTarget(i)
        /\ inOrder[i]
        /\ appended[i] >= 2
        /\ Len(config.Targets[i].Backups) >= 2
        /\ config.Targets[i].Backups[1].CreatedAt > config.Targets[i].Backups[2].CreatedAt

\* C3: once a record has been appended to a file target, its history is
\* exactly the record of the latest append, whatever it held before.
C3_FileTargetKeepsLatestOnly ==
    \A i \in 1..Len(config.Targets) :
        (IsFileTarget(config.Targets[i]) /\ appended[i] >= 1)
        => config.Targets[i].Backups = <<lastRecord[i]>>

\* C3 witness: a file target that had two records of history has been
\* appended to twice.
C3_Witness ==
    \E i \in 1..Len(config.Targets) :
        /\ IsFileTarget(config.Targets[i])
        /\ Len(initConfig.Targets[i].Backups) = 2
        /\ appended[i] >= 2
        /\ config.Targets[i].Backups = <<lastRecord[i]>>

-----------------------------------------------------------------------------
(* Claims about CleanupOldBackups, checked under SpecRotate *)

Rotated == lastCall.op = "rotate" /\ lastCall.err = "nil"

HasArchiveSuffix(name) == HasSuffix(name, TarGz) \/ HasSuffix(name, TarGzGpg)

\* the regular files of directory d that carry the prefix and an archive suffix
ArchivesIn(d, prefix) ==
    {n \in DOMAIN d : ~d[n].isDir /\ HasPrefix(n, prefix) /\ HasArchiveSuffix(n)}

\* the names the latest call took out of the directory
Deleted == DOMAIN lastCall.before \ DOMAIN dir

\* C4: when more than maxBackups archives carry the prefix and every removal
\* succeeds, rotation leaves exactly maxBackups of them and no retained
\* archive is older than a deleted one.
C4_KeepsTheNewest ==
    (/\ Rotated
     /\ Cardinality(ArchivesIn(lastCall.before, lastCall.prefix)) > lastCall.maxBackups
     /\ lastCall.failed = {})
    => /\ Cardinality(ArchivesIn(dir, lastCall.prefix)) = lastCall.maxBackups
       /\ \A kept \in ArchivesIn(dir, lastCall.prefix) :
            \A gone \in ArchivesIn(lastCall.before, lastCall.prefix) \ DOMAIN dir :
                lastCall.before[kept].mtime >= lastCall.before[gone].mtime

\* C4 witness: three archives of different ages, one kept and two deleted.
C4_Witness ==
    /\ Rotated
    /\ lastCall.failed = {}
    /\ lastCall.maxBackups = 1
    /\ Cardinality(ArchivesIn(lastCall.before, lastCall.prefix)) = 3
    /\ Cardinality(ArchivesIn(dir, lastCall.prefix)) = 1
    /\ \E kept \in ArchivesIn(dir, lastCall.prefix),
          gone \in ArchivesIn(lastCall.before, lastCall.prefix) \ DOMAIN dir :
            lastCall.before[kept].mtime > lastCall.before[gone].mtime

\* C5 as stated: every file rotation deletes starts with the prefix and ends
\* in .tar.gz or .tar.gz.gpg.
C5_DeletesOnlyPrefixedArchives ==
    Rotated => \A n \in Deleted : HasPrefix(n, lastCall.prefix) /\ HasArchiveSuffix(n)

\* C5 amended: every file rotation deletes is a regular file that starts with
\* the prefix and ends in .tar.gz or .tar.gz.gpg, or is one of the three
\* sidecar names of an archive it selected for deletion; every other entry of
\* the directory is left as it was.
C5_DeletesOnlyArchivesAndTheirSidecars ==
    Rotated =>
        /\ \A n \in Deleted :
              \/ /\ ~lastCall.before[n].isDir
                 /\ HasPrefix(n, lastCall.prefix)
                 /\ HasArchiveSuffix(n)
              \/ \E a \in ArchivesIn(lastCall.before, lastCall.prefix) :
                    /\ \E k \in 1..Len(lastCall.selected) : lastCall.selected[k] = a
                    /\ \/ n = TrimSuffix(TrimSuffix(a, <<".gpg">>), TarGz) \o BackupYaml
                       \/ n = TrimSuffix(TrimSuffix(a, <<".gpg">>), TarGz) \o TarGz \o BackupYaml
                       \/ n = TrimSuffix(TrimSuffix(a, <<".gpg">>), TarGz) \o <<".gpg">> \o BackupYaml
        /\ \A n \in DOMAIN dir : n \in DOMAIN lastCall.before /\ dir[n] = lastCall.before[n]

\* C5 witness: rotation of "job-" deleted an archive while an older archive
\* of another job, a subdirectory named like an archive and the sidecar of a
\* retained archive all stayed.
C5_Witness ==
    /\ Rotated
    /\ lastCall.prefix = JobPrefix
    /\ \E n \in Deleted : HasArchiveSuffix(n)
    /\ {O1, D1, S2, A2} \subseteq DOMAIN dir
    /\ \E n \in Deleted : lastCall.before[n].mtime > dir[O1].mtime

PairedArchives(d, c) ==
    {a \in DOMAIN d :
        /\ ~d[a].isDir
        /\ HasArchiveSuffix(a)
        /\ TrimSuffix(TrimSuffix(a, <<".gpg">>), TarGz) \o BackupYaml = c}

\* C7 (its second half): rotation deletes no sidecar <base>.backup.yaml while
\* an archive paired with it is still in the directory after the call.
C7_NoSidecarDeletedWhileItsArchiveStays ==
    Rotated => \A c \in Deleted : PairedArchives(dir, c) = {}

\* C8: when a removal fails rotation still returns nil and has called
\* os.Remove on every archive it selected and on every sidecar of theirs that
\* was in the directory.
C8_BestEffort ==
    (lastCall.op = "rotate" /\ lastCall.selected # <<>>)
    => /\ lastCall.err = "nil"
       /\ \A k \in 1..Len(lastCall.selected) :
            LET a == lastCall.selected[k]
                base == TrimSuffix(TrimSuffix(a, <<".gpg">>), TarGz)
            IN /\ a \in lastCall.removed \union lastCall.failed
               /\ \A c \in {base \o BackupYaml, base \o TarGz \o BackupYaml,
                            base \o <<".gpg">> \o BackupYaml} :
                     c \in DOMAIN lastCall.before
                         => c \in lastCall.removed \union lastCall.failed
       /\ DOMAIN dir = DOMAIN lastCall.before \ lastCall.removed
       /\ lastCall.failed \subseteq undeletable

\* C8 witness: the removal of the first selected archive failed and a later
\* selected archive was removed all the same.
C8_Witness ==
    /\ lastCall.op = "rotate"
    /\ Len(lastCall.selected) >= 2
    /\ lastCall.selected[1] \in lastCall.failed
    /\ lastCall.selected[2] \in lastCall.removed
    /\ lastCall.err = "nil"

-----------------------------------------------------------------------------
(* Claims about the run command, checked under SpecRun *)

\* the file names recorded in a history
HistoryNames(backups) == {backups[k].Filename : k \in 1..Len(backups)}

\* C9: when a run has ended and the configuration file holds what the run
\* recorded, the file names in the saved history of every directory target
\* are the archives of the source in its directory.
C9_HistoryMatchesDirectory ==
    (pc = "done" /\ saved.state = "ok" /\ saved.doc = config)
    => \A i \in 1..Len(saved.doc.Targets) :
          LET t == saved.doc.Targets[i]
          IN (~IsFileTarget(t) /\ t.Path \in DOMAIN disk)
             => HistoryNames(t.Backups) = ArchivesIn(disk[t.Path], <<SourceName, "-">>)

\* C10: when a run has ended after creating its temporary archive, no file it
\* created is left in the temporary directory.
C10_TemporaryArchiveRemoved ==
    (pc \in {"done", "exited"} /\ run.created # {})
    => run.created \intersect tmp = {}

\* the name of the file a pass copies to: the archive of the run in a
\* directory destination, the last element of the path of a file destination
CopiedName(pass) ==
    IF pass.isFile /\ pass.dest # "" THEN PathBase(pass.dest)
    ELSE run.backupFileName

\* the entries of directory d other than the file of the given name
OtherEntries(d, name) == [n \in DOMAIN d \ {name} |-> d[n]]

\* C11: a pass of the destinations loop that ends in an error (directory
\* missing, copy failed) rotates nothing and records nothing, and the loop
\* goes on: when the run is done every destination has had its pass.
C11_FailedDestinationIsOnlySkipped ==
    /\ pc = "done" =>
          /\ Len(run.log) = Len(run.destinations)
          /\ \A k \in 1..Len(run.log) : run.log[k].index = k
    /\ (pc \in {"copying", "done"} /\ run.log # <<>>
           /\ run.log[Len(run.log)].failed)
       => /\ config = run.before[1].config
          /\ saved = run.before[1].saved
          /\ \A p \in DOMAIN disk :
                OtherEntries(disk[p], CopiedName(run.log[Len(run.log)]))
                  = OtherEntries(run.before[1].disk[p],
                                 CopiedName(run.log[Len(run.log)]))

\* C11 witness: the first destination failed although its directory holds an
\* older archive, and the second destination was copied to and recorded.
C11_Witness ==
    /\ pc = "done"
    /\ Len(run.log) = 2
    /\ run.log[1].failed
    /\ ~run.log[2].failed
    /\ run.log[1].dest \in DOMAIN disk
    /\ \E n \in DOMAIN disk[run.log[1].dest] : n # run.backupFileName
    /\ run.backupFileName \in DOMAIN disk[run.log[2].dest]
    /\ \E i \in 1..Len(config.Targets) :
          /\ config.Targets[i].Path = run.log[2].dest
          /\ config.Targets[i].Backups # <<>>
          /\ config.Targets[i].Backups[1].Filename = run.backupFileName

\* BackupTarget.Validate of the validating version of the package: "ok" when
\* exactly one of Path and File is set
Validate(t) ==
    IF t.Path # "" /\ t.File # "" THEN "both"
    ELSE IF t.Path = "" /\ t.File = "" THEN "neither"
    ELSE "ok"

\* the configuration file cannot be loaded, or one of its targets is invalid
Unusable(file) ==
    \/ file.state # "ok"
    \/ \E i \in 1..Len(file.doc.Targets) : Validate(file.doc.Targets[i]) # "ok"

\* C12: a run whose configuration file cannot be loaded or holds an invalid
\* target exits on the configuration error: it builds no archive and makes
\* no pass over a destination.
C12_UnusableConfigurationAbortsRun ==
    (run.started > 0 /\ Unusable(saved))
    => /\ pc = "exited"
       /\ run.exit = "config"
       /\ run.created = {}
       /\ run.log = <<>>

-----------------------------------------------------------------------------
(* Claims about ReadBackupConfig and AddTarget, checked under SpecEdit *)

Loaded == lastOp.op = "load" /\ lastOp.err = "nil"

\* C13: in a loaded configuration every target has maxBackups > 0: the
\* default 7 where the file has none, zero or a negative one, and the value
\* of the file where that is positive.
C13_LoadedMaxBackupsPositive ==
    Loaded =>
        /\ Len(config.Targets) = Len(lastOp.file.doc.Targets)
        /\ \A i \in 1..Len(config.Targets) :
              LET m == lastOp.file.doc.Targets[i].MaxBackups
              IN /\ config.Targets[i].MaxBackups > 0
                 /\ config.Targets[i].MaxBackups = IF m <= 0 THEN 7 ELSE m

\* C13 witness: a file with a negative, and one with an unset and a positive
\* maxBackups has been loaded.
C13_Witness ==
    /\ Loaded
    /\ Len(config.Targets) = 2
    /\ lastOp.file.doc.Targets[1].MaxBackups < 0
    /\ lastOp.file.doc.Targets[2].MaxBackups = 2
    /\ config.Targets[1].MaxBackups = 7
    /\ config.Targets[2].MaxBackups = 2

\* C14: loading a file in which a target sets both the directory path and
\* the file path, or neither, returns an error and no configuration.
C14_LoadRejectsInvalidTargets ==
    (lastOp.op = "load" /\ lastOp.file.state = "ok"
       /\ \E i \in 1..Len(lastOp.file.doc.Targets) :
              Validate(lastOp.file.doc.Targets[i]) # "ok")
    => lastOp.err # "nil" /\ config = NoConfig

Added == lastOp.op = "add"

\* the destinations of the targets of cfg
DestinationsIn(cfg) ==
    {GetDestination(cfg.Targets[i]) : i \in 1..Len(cfg.Targets)}

\* C15: AddTarget returns false and leaves the targets as they were when a
\* target with the same destination (file path of a file target, directory
\* path otherwise) exists, and appends the target otherwise; a configuration
\* that was loaded without two targets of the same destination never gets two.
C15_AddTargetKeepsDestinationsDistinct ==
    /\ Added =>
          IF GetDestination(lastOp.target) \in DestinationsIn(lastOp.before)
          THEN ~lastOp.added /\ config = lastOp.before
          ELSE /\ lastOp.added
               /\ config.Targets = Append(lastOp.before.Targets, lastOp.target)
               /\ config.Excludes = lastOp.before.Excludes
               /\ config.Encryption = lastOp.before.Encryption
    /\ lastOp.dupFree => DuplicateFree(config)

\* C15 witness: a file target was refused because a directory target of a
\* configuration of two or more targets has the path it names.
C15_Witness ==
    /\ Added
    /\ ~lastOp.added
    /\ lastOp.dupFree
    /\ Len(config.Targets) >= 2
    /\ IsFileTarget(lastOp.target)
    /\ \E i \in 1..Len(config.Targets) :
          /\ ~IsFileTarget(config.Targets[i])
          /\ config.Targets[i].Path = lastOp.target.File

\* C16: AddTarget refuses a target that sets both the directory path and the
\* file path, or neither, and leaves the configuration as it was.
C16_AddTargetRejectsInvalidTargets ==
    (Added /\ Validate(lastOp.target) # "ok")
    => ~lastOp.added /\ config = lastOp.before

-----------------------------------------------------------------------------
(* Claims about UpdateGlobalRegistry, checked under SpecRegistry *)

Updated == lastOp.op = "update"

\* C17: without a registry file UpdateGlobalRegistry returns nil and there is
\* still no registry file.
C17_NoRegistryNoUpdate ==
    (Updated /\ lastOp.before.state = "missing")
    => lastOp.err = "nil" /\ registry = lastOp.before

\* C17 witness: several calls have been made without a registry file.
C17_Witness ==
    /\ Updated
    /\ lastOp.calls >= 2
    /\ lastOp.initial.state = "missing"
    /\ lastOp.err = "nil"
    /\ registry.state = "missing"

\* the locations of the entries of a registry document
Locations(backups) == {backups[k].Location : k \in 1..Len(backups)}

\* C18: on a registry file that exists, after any calls the registry holds
\* exactly one entry for every location it held at first and for every
\* (absolute) location a call that returned nil was given, and no other.
C18_OneEntryPerLocation ==
    lastOp.initial.state = "ok" =>
        /\ registry.state = "ok"
        /\ Locations(registry.doc.backups) =
               Locations(lastOp.initial.doc.backups) \union lastOp.passed
        /\ Len(registry.doc.backups) = Cardinality(Locations(registry.doc.backups))

\* C18 witness: one call was given a location the registry held, spelled
\* relative to the working directory, and another call a new location.
C18_Witness ==
    /\ lastOp.initial.state = "ok"
    /\ Updated
    /\ lastOp.err = "nil"
    /\ lastOp.location = <<"a">>
    /\ <<"/", "w", "a">> \in Locations(lastOp.initial.doc.backups)
    /\ <<"/", "w", "b">> \in lastOp.passed
    /\ Len(registry.doc.backups) = 2
    /\ \E k \in 1..2 : registry.doc.backups[k].RunAt > 1

\* C19: a call that returned nil on a registry file that exists left the
\* default section of the file (the encryption template and the target
\* mappings) and every entry of another location as they were.
C19_UpdatePreservesOtherContent ==
    (Updated /\ lastOp.before.state = "ok" /\ lastOp.err = "nil")
    => /\ registry.state = "ok"
       /\ registry.doc.default = lastOp.before.doc.default
       /\ \A k \in 1..Len(lastOp.before.doc.backups) :
             /\ k <= Len(registry.doc.backups)
             /\ lastOp.before.doc.backups[k].Location # Abs(lastOp.location)
                  => registry.doc.backups[k] = lastOp.before.doc.backups[k]

-----------------------------------------------------------------------------
(* Claims about the exclusion patterns, checked under SpecExclude *)

\* the path, or a directory above it, equals a pattern or starts with a
\* pattern followed by the separator
Covered(path) ==
    \E k \in 1..Len(excludes) :
        \E q \in Ancestors(path) \union {path} :
            q = excludes[k] \/ HasPrefix(q, excludes[k] \o <<"/">>)

\* C20: a path that equals a pattern or starts with a pattern followed by
\* the separator, and everything below it, is not in the archive and is
\* neither counted by CheckFileSizes nor listed by ListLargeFiles.
C20_ExcludedPathsAreAbsent ==
    \A path \in DOMAIN tree :
        Covered(path) =>
            /\ archive.done => path \notin archive.names
            /\ analysis.done =>
                  path \notin analysis.counted /\ path \notin analysis.large

\* C20 witness: the pattern is a directory that holds a file two levels
\* down; the archive and the analysis were made and both hold other files.
C20_Witness ==
    /\ archive.done
    /\ analysis.done
    /\ excludes = << <<"a">> >>
    /\ <<"a">> \in DOMAIN tree
    /\ tree[<<"a">>].isDir
    /\ Covered(<<"a", "/", "b", "/", "a">>)
    /\ <<"a", "/", "b", "/", "a">> \in DOMAIN tree
    /\ archive.names # {}
    /\ analysis.counted # {}
    /\ analysis.large # {}

\* the regular files of the source tree
Files == {path \in DOMAIN tree : ~tree[path].isDir}

\* the components of a relative path
RECURSIVE Components(_)
Components(path) ==
    IF \A i \in 1..Len(path) : path[i] # "/" THEN {path}
    ELSE LET i == CHOOSE j \in 1..Len(path) :
                      path[j] = "/" /\ \A h \in 1..(j - 1) : path[h] # "/"
         IN {SubSeq(path, 1, i - 1)}
               \union Components(SubSeq(path, i + 1, Len(path)))

\* some pattern matches one component of the path
ComponentMatched(path) ==
    \E k \in 1..Len(excludes) :
        \E c \in Components(path) : Match(excludes[k], c)

\* C21: a file one of whose path components, at any depth, is matched by a
\* pattern is excluded by checkExcluded, so the analysis does not count it;
\* with no patterns every file is counted.
C21_EveryComponentIsMatched ==
    analysis.done =>
        \A path \in Files :
            /\ ComponentMatched(path) => path \notin analysis.counted
            /\ excludes = <<>> => path \in analysis.counted

\* C22: with a threshold of zero or less CheckFileSizes lists every file
\* that is not excluded in FilesOverSize, and ListLargeFiles returns every
\* file that is not excluded.
C22_NonPositiveThresholdReportsEverything ==
    analysis.done =>
        /\ analysis.maxSizeGB <= 0 => analysis.over = analysis.counted
        /\ analysis.thresholdMB <= 0 => analysis.large = analysis.counted

\* C27: a file of the tree is written to the archive exactly when the size
\* analysis of the same tree with the same patterns counts it.
C27_ArchiveAndAnalysisExcludeTheSame ==
    (archive.done /\ analysis.done) =>
        \A path \in Files :
            path \in archive.names <=> path \in analysis.counted

-----------------------------------------------------------------------------
(* Claims about one call of AddBackupRecord, checked under SpecConfig *)

RecordAdded == lastOp.op = "AddBackupRecord"

\* target i is the first target of cfg whose destination is targetPath
FirstMatch(cfg, targetPath, i) ==
    /\ GetDestination(cfg.Targets[i]) = targetPath
    /\ \A j \in 1..(i - 1) : GetDestination(cfg.Targets[j]) # targetPath

\* C25: on a directory target the new history is the first k elements of
\* the record followed by the old history in its old order, where k is the
\* target's maxBackups if positive and 7 otherwise; the target's maxBackups
\* is k afterwards.
C25_PrependsAndTruncates ==
    RecordAdded =>
        \A i \in 1..Len(lastOp.before.Targets) :
            LET old == lastOp.before.Targets[i]
                k == IF old.MaxBackups > 0 THEN old.MaxBackups ELSE 7
                full == <<lastOp.record>> \o old.Backups
            IN (FirstMatch(lastOp.before, lastOp.targetPath, i)
                  /\ ~IsFileTarget(old)) =>
                   /\ config.Targets[i].Backups = SubSeq(full, 1, Min(k, Len(full)))
                   /\ config.Targets[i].MaxBackups = k

\* C25 witness: a directory target with maxBackups = 2 that started empty
\* has had three records appended and holds the last one before the second
\* one.
C25_Witness ==
    /\ RecordAdded
    /\ \E i \in 1..Len(config.Targets) :
          /\ FirstMatch(lastOp.before, lastOp.targetPath, i)
          /\ IsDirTarget(i)
          /\ StartedEmpty(i)
          /\ initConfig.Targets[i].MaxBackups = 2
          /\ appended[i] = 3
          /\ Len(lastOp.before.Targets[i].Backups) = 2
          /\ config.Targets[i].Backups =
                 <<lastOp.record, lastOp.before.Targets[i].Backups[1]>>

\* C26: a call changes nothing but the first target whose destination is
\* the one given: the other targets, the exclusion list and the encryption
\* settings are as before, and so is the whole configuration when no
\* target has that destination.
C26_OnlyTheMatchedTargetChanges ==
    RecordAdded =>
        /\ config.Excludes = lastOp.before.Excludes
        /\ config.Encryption = lastOp.before.Encryption
        /\ Len(config.Targets) = Len(lastOp.before.Targets)
        /\ \A i \in 1..Len(lastOp.before.Targets) :
              ~FirstMatch(lastOp.before, lastOp.targetPath, i) =>
                  config.Targets[i] = lastOp.before.Targets[i]

\* C26 witness: two targets have the destination given; the first one got
\* the record and the second one, which has a history, is as it was.
C26_Witness ==
    /\ RecordAdded
    /\ Len(config.Targets) = 2
    /\ GetDestination(config.Targets[1]) = lastOp.targetPath
    /\ GetDestination(config.Targets[2]) = lastOp.targetPath
    /\ config.Targets[1] # lastOp.before.Targets[1]
    /\ config.Targets[2].Backups # <<>>
    /\ config.Targets[2] = lastOp.before.Targets[2]

-----------------------------------------------------------------------------
(* Claims about one pass of the destinations loop, checked under SpecRun *)

\* the latest pass of the loop, and the state it started from
PassMade == run.log # <<>>

LastPass == run.log[Len(run.log)]

BeforePass == run.before[1]

\* C23: after a pass of the loop for a destination that is a target of the
\* configuration, that target's lastRun holds the outcome of the pass
\* (Success, or Failure when the pass ended in an error) and the saved
\* configuration holds the same lastRun.
C23_LastRunHoldsLatestAttempt ==
    PassMade =>
        LET i == MatchedTargetFrom(config.Targets, LastPass.dest, 1)
        IN i # 0 =>
              /\ config.Targets[i].LastRun # <<>>
              /\ config.Targets[i].LastRun[1].Status =
                     (IF LastPass.failed THEN "Failure" ELSE "Success")
              /\ saved.state = "ok"
              /\ saved.doc.Targets[i].LastRun = config.Targets[i].LastRun

\* the names a pass added to its destination directory
AddedByPass ==
    IF ~LastPass.isFile /\ LastPass.dest \in DOMAIN disk
    THEN DOMAIN disk[LastPass.dest] \ DOMAIN BeforePass.disk[LastPass.dest]
    ELSE {}

\* C28: the sidecar a pass writes next to the archive of the run is named
\* <base>.backup.yaml, the first name rotation derives for that archive.
C28_RunAndRotationAgreeOnSidecarName ==
    PassMade =>
        \A n \in AddedByPass :
            HasSuffix(n, BackupYaml) =>
                n = ConfigFileNames(run.backupFileName)[1]

\* C29: after a pass that copied the archive to a directory target with
\* maxBackups >= 1 and then rotated, the archive is in the destination.
C29_NewArchiveSurvivesRotation ==
    (PassMade /\ ~LastPass.failed /\ ~LastPass.isFile
       /\ RotationMaxBackups(BeforePass.config, LastPass.dest) >= 1)
    => run.backupFileName \in DOMAIN disk[LastPass.dest]

\* C30: when encryption is in effect and the run has reached the loop, the
\* unencrypted temporary archive is gone, what is copied is the file
\* GPGEncrypt wrote, and every archive of the source in a destination
\* directory carries the .gpg suffix.
C30_PlaintextNeverReachesADestination ==
    (run.useEncryption /\ pc \in {"copying", "done"}) =>
        /\ \A n \in run.created : ~HasSuffix(n, <<".gpg">>) => n \notin tmp
        /\ HasSuffix(run.tempBackupPath, TarGzGpg)
        /\ \A d \in DOMAIN disk :
              \A n \in ArchivesIn(disk[d], <<SourceName, "-">>) :
                  HasSuffix(n, TarGzGpg)

\* C30 witness: an encrypted run is done and its archive, with the .gpg
\* suffix, is in the destination of a pass that did not fail.
C30_Witness ==
    /\ run.useEncryption
    /\ pc = "done"
    /\ PassMade
    /\ ~LastPass.failed
    /\ ~LastPass.isFile
    /\ HasSuffix(run.backupFileName, TarGzGpg)
    /\ run.backupFileName \in DOMAIN disk[LastPass.dest]
    /\ tmp = {}

-----------------------------------------------------------------------------
(* Claims about run-all, checked under SpecRunAll *)

\* the entry at index k is missing, lacks .backup.yaml, or its backup fails
LocationFailed(k) == runAll.found[k] # "ok"

\* the indexes of the entries the loop has processed
Processed == {runAll.processed[j] : j \in 1..Len(runAll.processed)}

\* what every state of the loop and after it satisfies: the entries are
\* processed in their order; without --continue no entry after the first
\* failed one is processed; when the command has ended, with --continue
\* every entry was processed once, and without it the loop ran to the end
\* or stopped at a failed entry
InOrderUntilStopped ==
    /\ \A j \in 1..Len(runAll.processed) : runAll.processed[j] = j
    /\ ~runAll.continueOnError =>
          \A k \in Processed : \A j \in 1..(k - 1) : ~LocationFailed(j)
    /\ runAll.pc = "exited" =>
          /\ runAll.continueOnError =>
                Len(runAll.processed) = Len(runAll.backups)
          /\ ~runAll.continueOnError =>
                \/ Len(runAll.processed) = Len(runAll.backups)
                \/ LocationFailed(Len(runAll.processed))

\* C24 as stated: the entries are processed in order, the loop stops at the
\* first failed entry without --continue and processes every entry once
\* with it, and the command exits non-zero exactly when a processed entry
\* failed or was missing.
C24_ExitsNonZeroOnlyOnFailedLocation ==
    runAll.pc \in {"loop", "exited"} =>
        /\ InOrderUntilStopped
        /\ runAll.pc = "exited" =>
              (runAll.exit # 0 <=> \E k \in Processed : LocationFailed(k))

\* C24: the entries are processed in order, the loop stops at the first
\* failed entry without --continue and processes every entry once with it,
\* and the command exits non-zero exactly when the global registry could not
\* be read or a processed entry failed or was missing.
C24_RunAllStopsOrContinues ==
    runAll.pc \in {"loop", "exited"} =>
        /\ InOrderUntilStopped
        /\ runAll.pc = "exited" =>
              (runAll.exit # 0 <=>
                  \/ ReadGlobalRegistry(registry).err # "nil"
                  \/ \E k \in Processed : LocationFailed(k))

\* C24 witness: without --continue the command has ended non-zero after the
\* second of three entries, which was missing; the third was not processed.
C24_Witness ==
    /\ runAll.pc = "exited"
    /\ ~runAll.continueOnError
    /\ Len(runAll.backups) = 3
    /\ runAll.found[1] = "ok"
    /\ runAll.found[2] = "missing"
    /\ runAll.processed = <<1, 2>>
    /\ runAll.exit = 1

-----------------------------------------------------------------------------
(* Specifications *)

\* AddBackupRecord alone: the directory and the run are not used
ConfigStart ==
    /\ InitConfig
    /\ ParkedRotate
    /\ ParkedRun
    /\ ParkedEdit
    /\ ParkedExclude
    /\ ParkedRunAll

SpecConfig == ConfigStart /\ [][NextConfig]_vars

\* CleanupOldBackups alone: the configuration and the run are not used
RotateStart ==
    /\ InitRotate
    /\ ParkedConfig
    /\ ParkedRun
    /\ ParkedEdit
    /\ ParkedExclude
    /\ ParkedRunAll

SpecRotate == RotateStart /\ [][NextRotate]_vars

SpecRun ==
    /\ InitRun
    /\ [][NextRun]_vars

SpecEdit == InitEdit /\ [][NextEdit]_vars

SpecRegistry == InitRegistry /\ [][NextRegistry]_vars

SpecExclude == InitExclude /\ [][NextExclude]_vars

SpecRunAll == InitRunAll /\ [][NextRunAll]_vars

====
